---- MODULE Spec2Model ----
(***************************************************************************)
(* A model of the rusty-cassowary music streaming service.                 *)
(*                                                                         *)
(* Two request-handling surfaces exist in the source and both are          *)
(* modelled:                                                               *)
(*   - the router built by create_app (src/lib.rs): the require_auth       *)
(*     middleware in front of the library's stream_track, prefetch_tracks  *)
(*     and user_info;                                                      *)
(*   - the handlers of the binary crate (src/main.rs): stream_track with   *)
(*     Range support, prefetch_tracks with the prefetch queue, user_info.  *)
(*     These verify the credential themselves.                             *)
(*                                                                         *)
(* A request is received, handled by one whole handler in one step, and    *)
(* completed.  u64 arithmetic is modelled at a reduced width (U64Bits).    *)
(***************************************************************************)
EXTENDS Integers, Sequences, FiniteSets, TLC

\* ---------------------------------------------------------------- bounds
MaxFileLen == 2      \* longest stored track, in bytes
MaxLen     == 4      \* longest Range header value, in lexical units
MaxTime    == 1      \* latest clock reading / token expiry
MaxQueue   == 2      \* cap on the prefetch queue length
U64Bits    == 3      \* width of the modelled u64 / usize

U64Modulus == 2 ^ U64Bits
U64Max     == U64Modulus - 1

\* A claim or header that is not there.
Absent == "<absent>"
NoExp  == -1

\* ------------------------------------------------------------ the tokens
JwtSecret == "test_jwt_secret"
Keys      == {JwtSecret, "other_secret"}
Subjects  == {"alice"}
Roles     == {"authenticated"}
Emails    == {"alice@example.com"}

\* A well-formed JWT: the key that signed it and the claims it encodes.
JwtTokens ==
    [form : {"jwt"}, key : Keys, sub : Subjects \cup {Absent},
     exp : {NoExp} \cup (0 .. MaxTime),
     role : Roles \cup {Absent}, email : Emails \cup {Absent}]

\* Text that is no JWT at all ("test_token", "invalid_token").
GarbageToken ==
    [form |-> "garbage", key |-> Absent, sub |-> Absent, exp |-> NoExp,
     role |-> Absent, email |-> Absent]

Tokens == JwtTokens \cup {GarbageToken}

\* ----------------------------------------------------------- the headers
\* A header value: missing, bytes that to_str() refuses, or text split at
\* its first seven characters.
NoHeader     == [kind |-> "absent", prefix |-> "", rest |-> GarbageToken]
OpaqueHeader == [kind |-> "opaque", prefix |-> "", rest |-> GarbageToken]
BearerHeader(t) == [kind |-> "text", prefix |-> "Bearer ", rest |-> t]
BasicHeader  == [kind |-> "text", prefix |-> "Basic x", rest |-> GarbageToken]

AuthorizationValues ==
    {NoHeader, OpaqueHeader, BasicHeader} \cup {BearerHeader(t) : t \in Tokens}

\* The apikey header: missing, not text, empty, or some key.
ApikeyValues ==
    { [kind |-> "absent", text |-> ""], [kind |-> "opaque", text |-> ""],
      [kind |-> "text", text |-> ""], [kind |-> "text", text |-> "test_anon_key"] }

\* ------------------------------------------------------------ the claims
ClaimsOf(sub, email, role, exp) ==
    [sub |-> sub, email |-> email, role |-> role, exp |-> exp,
     aud |-> Absent, iss |-> Absent]

NoClaims == ClaimsOf(Absent, Absent, Absent, NoExp)

Ok(c)  == [ok |-> TRUE, claims |-> c, status |-> 200]
Err(s) == [ok |-> FALSE, claims |-> NoClaims, status |-> s]

\* decode::<Claims> with HS256, validate_exp and no required spec claims:
\* the text is a JWT, the signature verifies under the secret, the payload
\* deserialises into Claims (sub and exp are not Option), and exp is not in
\* the past.  Leeway is taken as zero.
decode_and_validate_token_NoExpiry(token, jwt_secret, now) ==
    IF token.form # "jwt" THEN Err(401)
    ELSE IF token.key # jwt_secret THEN Err(401)
    ELSE IF token.sub = Absent \/ token.exp = NoExp THEN Err(401)
    ELSE Ok(ClaimsOf(token.sub, token.email, token.role, token.exp))

decode_and_validate_token_NeedsRole(token, jwt_secret, now) ==
    IF token.form # "jwt" THEN Err(401)
    ELSE IF token.key # jwt_secret THEN Err(401)
    ELSE IF token.sub = Absent \/ token.exp = NoExp \/ token.role = Absent
         THEN Err(401)
    ELSE IF token.exp < now THEN Err(401)
    ELSE Ok(ClaimsOf(token.sub, token.email, token.role, token.exp))

decode_and_validate_token(token, jwt_secret, now) ==
    IF token.form # "jwt" THEN Err(401)
    ELSE IF token.key # jwt_secret THEN Err(401)
    ELSE IF token.sub = Absent \/ token.exp = NoExp THEN Err(401)
    ELSE IF token.exp < now THEN Err(401)
    ELSE Ok(ClaimsOf(token.sub, token.email, token.role, token.exp))

AnonClaims == ClaimsOf("anon-user", Absent, "anon", U64Max)

ApikeyOutcome(apikey) ==
    IF apikey.kind = "text" /\ apikey.text # "" THEN Ok(AnonClaims) ELSE Err(401)

\* A verifier that falls back to the apikey when the bearer token fails.
verify_supabase_token_FallThrough(authorization, apikey, jwt_secret, now) ==
    LET bearer == IF authorization.kind = "text" /\ authorization.prefix = "Bearer "
                  THEN decode_and_validate_token(authorization.rest, jwt_secret, now)
                  ELSE Err(401)
    IN  IF bearer.ok THEN bearer ELSE ApikeyOutcome(apikey)

\* A verifier that hands the anonymous caller the default role.
verify_supabase_token_AnonRole(authorization, apikey, jwt_secret, now) ==
    IF authorization.kind = "text" /\ authorization.prefix = "Bearer "
    THEN decode_and_validate_token(authorization.rest, jwt_secret, now)
    ELSE IF apikey.kind = "text" /\ apikey.text # ""
         THEN Ok(ClaimsOf("anon-user", Absent, "authenticated", U64Max))
         ELSE Err(401)

\* A verifier that consults the apikey before the Authorization header.
verify_supabase_token_ApikeyFirst(authorization, apikey, jwt_secret, now) ==
    IF apikey.kind = "text" /\ apikey.text # "" THEN Ok(AnonClaims)
    ELSE IF authorization.kind = "text" /\ authorization.prefix = "Bearer "
         THEN decode_and_validate_token(authorization.rest, jwt_secret, now)
         ELSE Err(401)

verify_supabase_token(authorization, apikey, jwt_secret, now) ==
    IF authorization.kind = "text" /\ authorization.prefix = "Bearer "
    THEN decode_and_validate_token(authorization.rest, jwt_secret, now)
    ELSE ApikeyOutcome(apikey)

\* ------------------------------------------------------- u64 arithmetic
\* a - b and a + b on u64.  With overflow checks on (a debug build) a wrap
\* panics; with them off (a release build) the result wraps.
U64Sub(a, b, overflow_checks) ==
    IF a >= b THEN [ok |-> TRUE, val |-> a - b]
    ELSE IF overflow_checks THEN [ok |-> FALSE, val |-> 0]
    ELSE [ok |-> TRUE, val |-> (a - b) % U64Modulus]

U64Add(a, b, overflow_checks) ==
    IF a + b <= U64Max THEN [ok |-> TRUE, val |-> a + b]
    ELSE IF overflow_checks THEN [ok |-> FALSE, val |-> 0]
    ELSE [ok |-> TRUE, val |-> (a + b) % U64Modulus]

\* ------------------------------------------------------ the Range header
\* A Range value is a sequence of lexical units: the literal "bytes=" or a
\* single character.
Digits == {"0", "1", "2", "3", "4", "5", "6", "7", "8", "9"}

RangeAlphabet == {"bytes=", "0", "1", "-", "x"}

RangeTexts == UNION { [1 .. n -> RangeAlphabet] : n \in 0 .. MaxLen }

NoRange     == [kind |-> "absent", text |-> <<>>]
OpaqueRange == [kind |-> "opaque", text |-> <<>>]
RangeText(s) == [kind |-> "text", text |-> s]

DigitVal(c) ==
    CASE c = "0" -> 0 [] c = "1" -> 1 [] c = "2" -> 2 [] c = "3" -> 3
      [] c = "4" -> 4 [] c = "5" -> 5 [] c = "6" -> 6 [] c = "7" -> 7
      [] c = "8" -> 8 [] c = "9" -> 9

\* The longest run of digits of s that starts at position i.
RECURSIVE DigitRun(_, _)
DigitRun(s, i) ==
    IF i <= Len(s) /\ s[i] \in Digits
    THEN <<s[i]>> \o DigitRun(s, i + 1)
    ELSE <<>>

RECURSIVE Decimal(_)
Decimal(ds) ==
    IF ds = <<>> THEN 0
    ELSE 10 * Decimal(SubSeq(ds, 1, Len(ds) - 1)) + DigitVal(ds[Len(ds)])

\* str::parse::<u64> of a run of digits: an error when it does not fit.
ParseU64(ds) ==
    IF ds # <<>> /\ Decimal(ds) <= U64Max
    THEN [ok |-> TRUE, val |-> Decimal(ds)]
    ELSE [ok |-> FALSE, val |-> 0]

\* bytes=(\d+)-(\d+)? matches at position i.  \d+ is greedy and must be
\* followed by the dash, so group 1 is the whole run of digits.
RangeMatchAt(s, i) ==
    /\ s[i] = "bytes="
    /\ LET g1 == DigitRun(s, i + 1)
       IN  /\ g1 # <<>>
           /\ i + 1 + Len(g1) <= Len(s)
           /\ s[i + 1 + Len(g1)] = "-"

\* Regex::captures: the leftmost match anywhere in the text (the pattern
\* has no anchors).  An empty g2 is group 2 not taking part.
RangeCaptures(s) ==
    LET hits == { i \in 1 .. Len(s) : RangeMatchAt(s, i) }
    IN  IF hits = {} THEN [matched |-> FALSE, g1 |-> <<>>, g2 |-> <<>>]
        ELSE LET i  == CHOOSE h \in hits : \A k \in hits : h <= k
                 g1 == DigitRun(s, i + 1)
             IN  [matched |-> TRUE, g1 |-> g1,
                  g2 |-> DigitRun(s, i + 2 + Len(g1))]

NoneRange  == [kind |-> "none", start |-> 0, end |-> 0]
PanicRange == [kind |-> "panic", start |-> 0, end |-> 0]
SomeRange(start, end) == [kind |-> "some", start |-> start, end |-> end]

\* The closure of stream_track that turns the Range header into
\* Option<(start, end)>.  unwrap_or evaluates file_size - 1 whether or not
\* an end was given.
parse_range(range, file_size, overflow_checks) ==
    IF range.kind # "text" THEN NoneRange
    ELSE LET caps == RangeCaptures(range.text)
         IN  IF ~caps.matched THEN NoneRange
             ELSE LET start  == ParseU64(caps.g1)
                      last   == U64Sub(file_size, 1, overflow_checks)
                      given  == ParseU64(caps.g2)
                  IN  IF ~start.ok THEN NoneRange
                      ELSE IF ~last.ok THEN PanicRange
                      ELSE IF given.ok THEN SomeRange(start.val, given.val)
                      ELSE SomeRange(start.val, last.val)

\* ------------------------------------------------------------- the store
TrackIds == {"test1", "nonexistent"}

\* The bytes of a stored track: distinct at distinct offsets.
ByteAt(i) == 100 + i

Content(n) == [i \in 1 .. n |-> ByteAt(i - 1)]

StoredFile(n) == [exists |-> TRUE, bytes |-> Content(n)]
NoFile        == [exists |-> FALSE, bytes |-> <<>>]

\* AsyncReadExt::take(n) on a freshly opened file: at most n bytes, read
\* from the current position, which is offset 0.
Take(bytes, n) == SubSeq(bytes, 1, IF n < Len(bytes) THEN n ELSE Len(bytes))

\* ---------------------------------------------------------- the requests
\* The body of a POST /prefetch: text that is not JSON, or {track_ids: ids}.
MalformedBody == [kind |-> "syntax_error", track_ids |-> <<>>]
\* Well-formed JSON that does not deserialize into PrefetchRequest.
WrongShapeBody == [kind |-> "data_error", track_ids |-> <<>>]
JsonBody(ids) == [kind |-> "json", track_ids |-> ids]
NoBody        == [kind |-> "none", track_ids |-> <<>>]

PrefetchBodies ==
    {MalformedBody, WrongShapeBody, JsonBody(<<"test1", "nonexistent">>)}

Request(route, id, authorization, apikey, range, body) ==
    [route |-> route, id |-> id, authorization |-> authorization,
     apikey |-> apikey, range |-> range, body |-> body]

NoRequest == Request("", "", NoHeader, [kind |-> "absent", text |-> ""], NoRange, NoBody)

\* Every credential, on each protected route.
CredentialRequests ==
    UNION { { Request("tracks", id, a, k, NoRange, NoBody) : id \in TrackIds }
            \cup { Request("prefetch", "", a, k, NoRange, b) : b \in PrefetchBodies }
            \cup { Request("me", "", a, k, NoRange, NoBody) }
          : <<a, k>> \in AuthorizationValues \X ApikeyValues }

\* Every Range header, with an anonymous key and with no credential.
RangeRequests ==
    { Request("tracks", "test1", NoHeader, k, r, NoBody) :
        k \in { [kind |-> "absent", text |-> ""],
                [kind |-> "text", text |-> "test_anon_key"] },
        r \in {OpaqueRange} \cup { RangeText(s) : s \in RangeTexts } }

Requests == CredentialRequests \cup RangeRequests

\* --------------------------------------------------------- the responses
NoContentRange == <<>>
NoContentLength == -1

Response(status) ==
    [outcome |-> "response", status |-> status, error |-> Absent,
     content_type |-> Absent, content_range |-> NoContentRange,
     content_length |-> NoContentLength, body |-> <<>>,
     user_id |-> Absent, email |-> Absent, role |-> Absent,
     valid_track_ids |-> <<>>, invalid_track_ids |-> <<>>]

\* The handler's task panicked: the connection closes with no response.
Panicked == [Response(0) EXCEPT !.outcome = "panic"]

NoResponse == [Response(0) EXCEPT !.outcome = "none"]

\* error_response: the status and a JSON body {"error": message}.
error_response(status, message) == [Response(status) EXCEPT !.error = message]

\* What a handler did: its response, the file-system and queue operations
\* it performed in order, the range it resolved, and the queue it left.
Performed(resp, ops, range, queue) ==
    [resp |-> resp, effects |-> ops, range |-> range, queue |-> queue]

Op(op, id) == [op |-> op, id |-> id]

\* The Json<PrefetchRequest> extractor, which runs before the handler body.
JsonRejected(body) == body.kind # "json"

\* An extractor that answers every rejected body 400.
json_rejection_status_BadRequest(body) == 400

\* The status of the extractor's rejection: 400 for text that is not JSON,
\* 422 for JSON that is not a PrefetchRequest.
json_rejection_status(body) ==
    IF body.kind = "syntax_error" THEN 400 ELSE 422

RECURSIVE ProbeAll(_)
ProbeAll(ids) ==
    IF ids = <<>> THEN <<>> ELSE <<Op("exists", Head(ids))>> \o ProbeAll(Tail(ids))

RECURSIVE PushAll(_)
PushAll(ids) ==
    IF ids = <<>> THEN <<>> ELSE <<Op("push_back", Head(ids))>> \o PushAll(Tail(ids))

\* ------------------------------------------------- the handlers of lib.rs
whole_file_response(bytes) ==
    [Response(200) EXCEPT !.content_type = "audio/mpeg",
                          !.content_length = Len(bytes), !.body = bytes]

lib_stream_track_ServerError(r, fs, queue, now) ==
    LET v == verify_supabase_token(r.authorization, r.apikey, JwtSecret, now)
    IN  IF ~v.ok THEN Performed(Response(v.status), <<>>, NoneRange, queue)
        ELSE IF ~fs[r.id].exists
             THEN Performed(Response(500), <<Op("open", r.id)>>, NoneRange, queue)
        ELSE Performed(whole_file_response(fs[r.id].bytes),
                       <<Op("open", r.id), Op("open", r.id)>>, NoneRange, queue)

lib_stream_track(r, fs, queue, now) ==
    LET v == verify_supabase_token(r.authorization, r.apikey, JwtSecret, now)
    IN  IF ~v.ok THEN Performed(Response(v.status), <<>>, NoneRange, queue)
        ELSE IF ~fs[r.id].exists
             THEN Performed(Response(404), <<Op("open", r.id)>>, NoneRange, queue)
        ELSE Performed(whole_file_response(fs[r.id].bytes),
                       <<Op("open", r.id), Op("open", r.id)>>, NoneRange, queue)

lib_prefetch_tracks(r, fs, queue, now) ==
    LET v   == verify_supabase_token(r.authorization, r.apikey, JwtSecret, now)
        ids == r.body.track_ids
    IN  IF JsonRejected(r.body)
        THEN Performed(Response(json_rejection_status(r.body)), <<>>, NoneRange, queue)
        ELSE IF ~v.ok THEN Performed(Response(v.status), <<>>, NoneRange, queue)
        ELSE Performed(
               [Response(200) EXCEPT
                  !.valid_track_ids =
                      SelectSeq(ids, LAMBDA t : fs[t].exists),
                  !.invalid_track_ids =
                      SelectSeq(ids, LAMBDA t : ~fs[t].exists)],
               ProbeAll(ids), NoneRange, queue)

lib_user_info(r, fs, queue, now) ==
    LET v == verify_supabase_token(r.authorization, r.apikey, JwtSecret, now)
    IN  IF ~v.ok THEN Performed(Response(v.status), <<>>, NoneRange, queue)
        ELSE Performed([Response(200) EXCEPT !.user_id = v.claims.sub,
                                              !.email = v.claims.email],
                       <<>>, NoneRange, queue)

\* The routes create_app puts behind require_auth.
protected_routes(r, fs, queue, now) ==
    CASE r.route = "tracks"   -> lib_stream_track(r, fs, queue, now)
      [] r.route = "prefetch" -> lib_prefetch_tracks(r, fs, queue, now)
      [] r.route = "me"       -> lib_user_info(r, fs, queue, now)

\* require_auth: the verifier's claims go into the request's extensions
\* and the next service runs, or the request ends with 401.
require_auth(r, fs, queue, now) ==
    LET v == verify_supabase_token(r.authorization, r.apikey, JwtSecret, now)
    IN  IF v.ok
        THEN [guard |-> "admitted", extensions |-> v.claims,
              done |-> protected_routes(r, fs, queue, now)]
        ELSE [guard |-> "rejected", extensions |-> NoClaims,
              done |-> Performed(error_response(401, "Authentication required"),
                                 <<>>, NoneRange, queue)]

\* ------------------------------------------------ the handlers of main.rs
\* The None arm of stream_track: the whole file, status 200.
stream_entire_file_Truncated(bytes) ==
    [Response(200) EXCEPT !.content_type = "audio/mpeg",
                          !.content_length = Len(bytes),
                          !.body = SubSeq(bytes, 1, Len(bytes) - 1)]

stream_entire_file(bytes) ==
    [Response(200) EXCEPT !.content_type = "audio/mpeg",
                          !.content_length = Len(bytes), !.body = bytes]

\* The Some((start, end)) arm of stream_track: end - start + 1 bytes are
\* taken from the opened file, which is never seeked.
stream_range(bytes, start, end, overflow_checks) ==
    LET diff  == U64Sub(end, start, overflow_checks)
        count == U64Add(diff.val, 1, overflow_checks)
    IN  IF ~diff.ok \/ ~count.ok THEN Panicked
        ELSE [Response(206) EXCEPT
                !.content_type = "audio/mpeg",
                !.content_range = <<start, end, Len(bytes)>>,
                !.content_length = count.val,
                !.body = Take(bytes, count.val)]

main_stream_track(r, fs, queue, now, overflow_checks) ==
    LET v     == verify_supabase_token(r.authorization, r.apikey, JwtSecret, now)
        bytes == fs[r.id].bytes
        range == parse_range(r.range, Len(bytes), overflow_checks)
        probe == <<Op("exists", r.id)>>
        open  == <<Op("exists", r.id), Op("open", r.id)>>
    IN  IF ~fs[r.id].exists THEN Performed(Response(404), probe, NoneRange, queue)
        ELSE IF ~v.ok THEN Performed(Response(v.status), probe, NoneRange, queue)
        ELSE IF range.kind = "panic" THEN Performed(Panicked, open, range, queue)
        ELSE IF range.kind = "some"
             THEN Performed(stream_range(bytes, range.start, range.end,
                                         overflow_checks),
                            open, range, queue)
        ELSE Performed(stream_entire_file(bytes), open, range, queue)

main_prefetch_tracks(r, fs, queue, now) ==
    LET v   == verify_supabase_token(r.authorization, r.apikey, JwtSecret, now)
        ids == r.body.track_ids
    IN  IF JsonRejected(r.body)
        THEN Performed(Response(json_rejection_status(r.body)), <<>>, NoneRange, queue)
        ELSE IF ~v.ok THEN Performed(Response(v.status), <<>>, NoneRange, queue)
        ELSE Performed(Response(200), PushAll(ids), NoneRange, queue \o ids)

main_user_info(r, fs, queue, now) ==
    LET v == verify_supabase_token(r.authorization, r.apikey, JwtSecret, now)
    IN  IF ~v.ok THEN Performed(Response(v.status), <<>>, NoneRange, queue)
        ELSE Performed(
               [Response(200) EXCEPT
                  !.user_id = v.claims.sub, !.email = v.claims.email,
                  !.role = IF v.claims.role = Absent THEN "authenticated"
                           ELSE v.claims.role],
               <<>>, NoneRange, queue)

\* ------------------------------------------------------------- the state
VARIABLES
    files,            \* the music directory: track id -> stored file
    prefetch_queue,   \* AppState.prefetch_queue
    pc,               \* "idle", "received" or "responded"
    req,              \* the request being handled
    clock,            \* the clock reading while it is handled
    handler,          \* which surface handled it: "create_app" or "main"
    guard,            \* require_auth's verdict: "none", "admitted", "rejected"
    extensions,       \* the Claims require_auth put into the request
    range,            \* the Option<(start, end)> stream_track resolved
    effects,          \* the file and queue operations performed, in order
    resp,             \* the response
    mutex,            \* the tasks that hold the guard of prefetch_queue's Mutex
    tasks,            \* the concurrent runs of main.rs's prefetch_tracks
    worker,           \* prefetch_task: its position and the track it took
    appended,         \* every push_back so far, in order
    removed,          \* every pop_front that returned Some, in order
    started           \* the number of prefetch_tracks runs started so far

\* The state of one request handled in a single step.
svars == <<pc, req, clock, handler, guard, extensions, range, effects, resp>>

\* The state of the concurrent prefetch_tracks runs and of prefetch_task.
qvars == <<mutex, tasks, worker, appended, removed, started>>

vars == <<files, prefetch_queue, svars, qvars>>

\* ------------------------------------- prefetch_tracks runs and the worker
MaxRequests == 2     \* bound: prefetch_tracks runs started in one behaviour

TaskIds == {"h1", "h2"}

\* The POST /prefetch requests the concurrent runs are given.
QueueRequests ==
    { Request("prefetch", "", NoHeader, k, NoRange, b) :
        k \in { [kind |-> "absent", text |-> ""],
                [kind |-> "text", text |-> "test_anon_key"] },
        b \in { MalformedBody, JsonBody(<<"test1", "nonexistent">>),
                JsonBody(<<"test1", "nonexistent", "test1">>) } }

\* Mutex::lock().await completes only when no guard is alive.
lock_free_Always(holders) == TRUE

lock_free(holders) == holders = {}

\* The identifiers one lock().await.push_back(..) statement appends: the
\* guard is a temporary of the statement inside the for loop.
locked_batch_WholeRequest(left) == left

locked_batch(left) == <<Head(left)>>

\* VecDeque::pop_front.
pop_front_Back(queue) ==
    IF queue = <<>> THEN [some |-> FALSE, id |-> Absent, rest |-> <<>>]
    ELSE [some |-> TRUE, id |-> queue[Len(queue)],
          rest |-> SubSeq(queue, 1, Len(queue) - 1)]

pop_front(queue) ==
    IF queue = <<>> THEN [some |-> FALSE, id |-> Absent, rest |-> <<>>]
    ELSE [some |-> TRUE, id |-> Head(queue), rest |-> Tail(queue)]

\* What the file system does to the worker's reads.
IoOutcomes == {"ok", "open_error", "read_error"}

\* The body of prefetch_task for a track it took: a missing file and a
\* failed open are skipped, a failed read ends the while-let loop.
prefetch_file_Unwrap(file, io) ==
    IF ~file.exists THEN "skipped"
    ELSE IF io = "open_error" THEN "panic"
    ELSE IF io = "read_error" THEN "panic"
    ELSE "prefetched"

prefetch_file(file, io) ==
    IF ~file.exists THEN "skipped"
    ELSE IF io = "open_error" THEN "skipped"
    ELSE "prefetched"

IdleTask ==
    [pc |-> "idle", run |-> 0, req |-> NoRequest, left |-> <<>>, pushed |-> 0,
     locks |-> 0, resp |-> NoResponse]

IdleWorker == [pc |-> "lock", track_id |-> Absent, outcome |-> Absent]

QueueInit ==
    /\ mutex = {}
    /\ tasks = [h \in TaskIds |-> IdleTask]
    /\ worker = IdleWorker
    /\ appended = <<>>
    /\ removed = <<>>
    /\ started = 0

Directories ==
    { [id \in TrackIds |-> IF id = "test1" THEN f ELSE NoFile] :
        f \in {NoFile} \cup { StoredFile(n) : n \in 0 .. MaxFileLen } }

Init ==
    /\ files \in Directories
    /\ prefetch_queue = <<>>
    /\ pc = "idle"
    /\ req = NoRequest
    /\ clock = 0
    /\ handler = ""
    /\ guard = "none"
    /\ extensions = NoClaims
    /\ range = NoneRange
    /\ effects = <<>>
    /\ resp = NoResponse
    /\ QueueInit

\* The clock is read only to validate a bearer token.
ClockReadings(r) ==
    IF r.authorization.kind = "text" /\ r.authorization.prefix = "Bearer "
    THEN 0 .. MaxTime ELSE {0}

\* A request arrives.
Receive ==
    /\ pc = "idle"
    /\ \E r \in Requests : \E t \in ClockReadings(r) :
          /\ req' = r
          /\ clock' = t
    /\ pc' = "received"
    /\ UNCHANGED <<files, prefetch_queue, handler, guard, extensions, range,
                   effects, resp>>
    /\ UNCHANGED qvars

Finish(by, done) ==
    /\ Len(done.queue) <= MaxQueue
    /\ handler' = by
    /\ resp' = done.resp
    /\ effects' = done.effects
    /\ range' = done.range
    /\ prefetch_queue' = done.queue
    /\ pc' = "responded"
    /\ UNCHANGED <<files, req, clock>>
    /\ UNCHANGED qvars

\* The router of create_app serves it: require_auth, then the handler.
Router ==
    /\ pc = "received"
    /\ LET g == require_auth(req, files, prefetch_queue, clock)
       IN  /\ guard' = g.guard
           /\ extensions' = g.extensions
           /\ Finish("create_app", g.done)

\* main.rs's stream_track serves it.
MainStreamTrack ==
    /\ pc = "received"
    /\ req.route = "tracks"
    /\ \E overflow_checks \in BOOLEAN :
          Finish("main", main_stream_track(req, files, prefetch_queue, clock,
                                           overflow_checks))
    /\ UNCHANGED <<guard, extensions>>

\* main.rs's prefetch_tracks serves it.
MainPrefetchTracks ==
    /\ pc = "received"
    /\ req.route = "prefetch"
    /\ Finish("main", main_prefetch_tracks(req, files, prefetch_queue, clock))
    /\ UNCHANGED <<guard, extensions>>

\* main.rs's user_info serves it.
MainUserInfo ==
    /\ pc = "received"
    /\ req.route = "me"
    /\ Finish("main", main_user_info(req, files, prefetch_queue, clock))
    /\ UNCHANGED <<guard, extensions>>

\* The response is sent and the request's state is dropped.
Complete ==
    /\ pc = "responded"
    /\ pc' = "idle"
    /\ req' = NoRequest
    /\ clock' = 0
    /\ handler' = ""
    /\ guard' = "none"
    /\ extensions' = NoClaims
    /\ range' = NoneRange
    /\ effects' = <<>>
    /\ resp' = NoResponse
    /\ UNCHANGED <<files, prefetch_queue>>
    /\ UNCHANGED qvars

Next ==
    \/ Receive
    \/ Router
    \/ MainStreamTrack
    \/ MainPrefetchTracks
    \/ MainUserInfo
    \/ Complete

Spec == Init /\ [][Next]_vars

\* ------------------------------ concurrent prefetch_tracks and the worker
\* A run of main.rs's prefetch_tracks begins: the Json extractor and the
\* verifier decide, and an admitted run is left with its identifiers to push.
QStart(h) ==
    /\ tasks[h].pc = "idle"
    /\ started < MaxRequests
    /\ \E r \in QueueRequests :
          LET done == main_prefetch_tracks(r, files, <<>>, 0)
          IN  tasks' = [tasks EXCEPT ![h] =
                 [pc |-> IF done.queue = <<>> THEN "done" ELSE "lock",
                  run |-> started + 1, req |-> r, left |-> done.queue,
                  pushed |-> 0, locks |-> 0, resp |-> done.resp]]
    /\ started' = started + 1
    /\ UNCHANGED <<files, prefetch_queue, svars, mutex, worker, appended, removed>>

\* state.prefetch_queue.lock().await
QAcquire(h) ==
    /\ tasks[h].pc = "lock"
    /\ lock_free(mutex)
    /\ mutex' = mutex \cup {h}
    /\ tasks' = [tasks EXCEPT ![h].pc = "push", ![h].locks = @ + 1]
    /\ UNCHANGED <<files, prefetch_queue, svars, worker, appended, removed, started>>

\* .push_back(track_id); the guard drops at the end of the statement.
QPush(h) ==
    /\ tasks[h].pc = "push"
    /\ LET t     == tasks[h]
           batch == locked_batch(t.left)
           rest  == SubSeq(t.left, Len(batch) + 1, Len(t.left))
       IN  /\ prefetch_queue' = prefetch_queue \o batch
           /\ appended' = appended \o
                 [i \in 1 .. Len(batch) |->
                    [id |-> batch[i], run |-> t.run, k |-> t.pushed + i,
                     of |-> t.req.body.track_ids]]
           /\ tasks' = [tasks EXCEPT
                 ![h].left = rest,
                 ![h].pushed = @ + Len(batch),
                 ![h].pc = IF rest = <<>> THEN "done" ELSE "lock"]
    /\ mutex' = mutex \ {h}
    /\ UNCHANGED <<files, svars, worker, removed, started>>

\* The run's response has been sent.
QReturn(h) ==
    /\ tasks[h].pc = "done"
    /\ tasks' = [tasks EXCEPT ![h] = IdleTask]
    /\ UNCHANGED <<files, prefetch_queue, svars, mutex, worker, appended, removed,
                   started>>

\* prefetch_task: let mut queue = state.prefetch_queue.lock().await
WorkerLock ==
    /\ worker.pc = "lock"
    /\ lock_free(mutex)
    /\ mutex' = mutex \cup {"worker"}
    /\ worker' = [worker EXCEPT !.pc = "pop"]
    /\ UNCHANGED <<files, prefetch_queue, svars, tasks, appended, removed, started>>

\* queue.pop_front(); the guard drops at the end of the block.
WorkerPop ==
    /\ worker.pc = "pop"
    /\ LET item == pop_front(prefetch_queue)
       IN  /\ prefetch_queue' = item.rest
           /\ removed' = IF item.some THEN Append(removed, item.id) ELSE removed
           /\ worker' = [pc |-> "warm", track_id |-> item.id, outcome |-> Absent]
    /\ mutex' = mutex \ {"worker"}
    /\ UNCHANGED <<files, svars, tasks, appended, started>>

\* The file of the track that was taken, if any, is read and discarded.
WorkerWarm ==
    /\ worker.pc = "warm"
    /\ \E io \in IoOutcomes :
          LET outcome == IF worker.track_id = Absent THEN "none"
                         ELSE prefetch_file(files[worker.track_id], io)
          IN  worker' = [worker EXCEPT
                 !.outcome = outcome,
                 !.pc = IF outcome = "panic" THEN "stopped" ELSE "sleep"]
    /\ UNCHANGED <<files, prefetch_queue, svars, mutex, tasks, appended, removed,
                   started>>

\* tokio::time::sleep(100 ms), then the loop starts over.
WorkerSleep ==
    /\ worker.pc = "sleep"
    /\ worker' = IdleWorker
    /\ UNCHANGED <<files, prefetch_queue, svars, mutex, tasks, appended, removed,
                   started>>

QueueNext ==
    \/ \E h \in TaskIds : QStart(h)
    \/ \E h \in TaskIds : QAcquire(h)
    \/ \E h \in TaskIds : QPush(h)
    \/ \E h \in TaskIds : QReturn(h)
    \/ WorkerLock
    \/ WorkerPop
    \/ WorkerWarm
    \/ WorkerSleep

\* The directory of the tests: test1.mp3 is stored, nonexistent.mp3 is not.
InitQueue ==
    /\ Init
    /\ files["test1"] = StoredFile(MaxFileLen)

SpecQueue == InitQueue /\ [][QueueNext]_vars

\* ===================================================== the properties
\* The vocabulary of the claims, stated on the request itself.
Responded == pc = "responded"

Guarded == Responded /\ handler = "create_app"

IsBearer(r) == r.authorization.kind = "text" /\ r.authorization.prefix = "Bearer "

NonEmptyApikey(r) == r.apikey.kind = "text" /\ r.apikey.text # ""

\* Signed with the configured secret, carrying a subject, not yet expired.
ValidToken(t, now) ==
    /\ t.form = "jwt"
    /\ t.key = JwtSecret
    /\ t.sub # Absent
    /\ t.exp # NoExp
    /\ t.exp >= now

\* Malformed, signed with another key, or expired.
BadToken(t, now) ==
    \/ t.form # "jwt"
    \/ t.key # JwtSecret
    \/ (t.exp # NoExp /\ t.exp < now)

Authenticated(r, now) ==
    \/ IsBearer(r) /\ ValidToken(r.authorization.rest, now)
    \/ ~IsBearer(r) /\ NonEmptyApikey(r)

StoredBytes == files[req.id].bytes

\* C1: a request to a protected route with neither an Authorization nor an
\* apikey header, or with a Bearer token that is malformed, wrongly signed or
\* expired, is rejected by the guard with 401 "Authentication required".
C1_GuardRejects ==
    ( /\ Guarded
      /\ \/ (req.authorization.kind = "absent" /\ req.apikey.kind = "absent")
         \/ (IsBearer(req) /\ BadToken(req.authorization.rest, clock)) )
    => ( /\ guard = "rejected"
         /\ resp.status = 401
         /\ resp.error = "Authentication required" )

\* An expired, well-signed bearer token beside a usable apikey was rejected.
C1_Witness ==
    /\ Guarded
    /\ IsBearer(req)
    /\ req.authorization.rest.key = JwtSecret
    /\ req.authorization.rest.exp # NoExp
    /\ req.authorization.rest.exp < clock
    /\ NonEmptyApikey(req)
    /\ guard = "rejected"
    /\ resp.status = 401

\* C2 as claimed: a non-empty apikey without a valid bearer token (an invalid
\* or expired Bearer token included) is admitted as "anon-user" / "anon".
C2_Original ==
    ( /\ Guarded
      /\ NonEmptyApikey(req)
      /\ ~(IsBearer(req) /\ ValidToken(req.authorization.rest, clock)) )
    => ( /\ guard = "admitted"
         /\ extensions.sub = "anon-user"
         /\ extensions.role = "anon" )

\* C2 as amended: a non-empty apikey on a request whose Authorization header
\* is missing or is not of the form "Bearer <token>" is admitted as
\* "anon-user" / "anon".
C2_AnonWithoutBearer ==
    (Guarded /\ NonEmptyApikey(req) /\ ~IsBearer(req))
    => ( /\ guard = "admitted"
         /\ extensions.sub = "anon-user"
         /\ extensions.role = "anon"
         /\ resp.status # 401 )

\* An apikey beside an Authorization header of another scheme was admitted.
C2_Witness ==
    /\ Guarded
    /\ NonEmptyApikey(req)
    /\ req.authorization = BasicHeader
    /\ guard = "admitted"
    /\ extensions.sub = "anon-user"

\* C3: a request carrying a validly signed, unexpired token as a Bearer
\* credential is admitted and the claims handed on carry the token's subject,
\* whichever of the optional claims the token omits.
C3_TokenSubjectExposed ==
    (Guarded /\ IsBearer(req) /\ ValidToken(req.authorization.rest, clock))
    => ( /\ guard = "admitted"
         /\ extensions.sub = req.authorization.rest.sub
         /\ resp.status # 401
         /\ (req.route = "me" => resp.user_id = req.authorization.rest.sub) )

\* A token with no role and no email was admitted on /me.
C3_Witness ==
    /\ Guarded
    /\ IsBearer(req)
    /\ ValidToken(req.authorization.rest, clock)
    /\ req.authorization.rest.role = Absent
    /\ req.authorization.rest.email = Absent
    /\ req.route = "me"
    /\ guard = "admitted"
    /\ resp.user_id = "alice"

\* C4: a request the verifier rejects performs no file or queue operation and
\* is answered 401, whatever the track or the body.
C4_RejectedDoesNothing ==
    ( /\ Responded
      /\ ~verify_supabase_token(req.authorization, req.apikey, JwtSecret, clock).ok )
    => (effects = <<>> /\ resp.status = 401)

\* The claim's Range header: exactly bytes=<s>-<e>.
ClosedRange(t) ==
    /\ t.kind = "text"
    /\ Len(t.text) >= 4
    /\ t.text[1] = "bytes="
    /\ LET g1 == DigitRun(t.text, 2)
           g2 == DigitRun(t.text, 3 + Len(g1))
       IN  /\ g1 # <<>> /\ g2 # <<>>
           /\ 3 + Len(g1) <= Len(t.text)
           /\ t.text[2 + Len(g1)] = "-"
           /\ 2 + Len(g1) + Len(g2) = Len(t.text)

RangeStart(t) == Decimal(DigitRun(t.text, 2))
RangeEnd(t)   == Decimal(DigitRun(t.text, 3 + Len(DigitRun(t.text, 2))))

\* C5: an authenticated retrieval of a stored track of length L with
\* Range: bytes=s-e, s <= e < L, is answered 206 with Content-Range
\* bytes s-e/L, Content-Length e-s+1 and the bytes at offsets s..e.
C5_RangeServed ==
    ( /\ Responded
      /\ req.route = "tracks"
      /\ Authenticated(req, clock)
      /\ files[req.id].exists
      /\ ClosedRange(req.range)
      /\ RangeStart(req.range) <= RangeEnd(req.range)
      /\ RangeEnd(req.range) < Len(StoredBytes) )
    => ( /\ resp.status = 206
         /\ resp.content_range =
              <<RangeStart(req.range), RangeEnd(req.range), Len(StoredBytes)>>
         /\ resp.content_length = RangeEnd(req.range) - RangeStart(req.range) + 1
         /\ resp.body = SubSeq(StoredBytes, RangeStart(req.range) + 1,
                               RangeEnd(req.range) + 1) )

\* C6: an authenticated retrieval of a stored track with no Range header is
\* answered 200 with Content-Length L and the whole file as body.
C6_WholeFileServed ==
    ( /\ Responded
      /\ req.route = "tracks"
      /\ Authenticated(req, clock)
      /\ files[req.id].exists
      /\ req.range.kind = "absent" )
    => ( /\ resp.status = 200
         /\ resp.content_length = Len(StoredBytes)
         /\ resp.body = StoredBytes )

\* A stored track of the greatest length was served whole by main.rs.
C6_Witness ==
    /\ Responded
    /\ handler = "main"
    /\ req.route = "tracks"
    /\ req.range.kind = "absent"
    /\ Len(StoredBytes) = MaxFileLen
    /\ resp.status = 200
    /\ resp.body = StoredBytes

\* C7: every range the resolver yields satisfies start <= end < total length.
C7_ResolvedRangeInBounds ==
    (Responded /\ handler = "main" /\ range.kind = "some")
    => (range.start <= range.end /\ range.end < Len(StoredBytes))

\* The grammar bytes=<start>-<end>? with <end>, when given, >= <start>.
MatchesGrammar(t) ==
    /\ t.kind = "text"
    /\ Len(t.text) >= 3
    /\ t.text[1] = "bytes="
    /\ LET g1 == DigitRun(t.text, 2)
           g2 == DigitRun(t.text, 3 + Len(g1))
       IN  /\ g1 # <<>>
           /\ 2 + Len(g1) <= Len(t.text)
           /\ t.text[2 + Len(g1)] = "-"
           /\ 2 + Len(g1) + Len(g2) = Len(t.text)
           /\ (g2 # <<>> => Decimal(g2) >= Decimal(g1))

\* C8: a Range header that is absent or does not match the grammar yields
\* the whole resource with status 200.
C8_UnparsableServesWhole ==
    ( /\ Responded
      /\ handler = "main"
      /\ req.route = "tracks"
      /\ Authenticated(req, clock)
      /\ files[req.id].exists
      /\ ~MatchesGrammar(req.range) )
    => ( /\ resp.outcome = "response"
         /\ resp.status = 200
         /\ resp.content_length = Len(StoredBytes)
         /\ resp.body = StoredBytes )

\* C9: in the partial case end - start + 1 neither wraps nor panics, equals
\* the Content-Length sent and the number of bytes streamed, and the body is
\* the file from offset start up to offset end.
C9_PartialBodyExact ==
    (Responded /\ handler = "main" /\ range.kind = "some")
    => ( /\ resp.outcome = "response"
         /\ range.start <= range.end
         /\ resp.content_length = range.end - range.start + 1
         /\ Len(resp.body) = resp.content_length
         /\ resp.body = SubSeq(StoredBytes, range.start + 1, range.end + 1) )

\* C10: an authenticated request for a track with no backing file is
\* answered 404, under a bearer token and under an apikey alike.
C10_MissingTrackNotFound ==
    ( /\ Responded
      /\ req.route = "tracks"
      /\ Authenticated(req, clock)
      /\ ~files[req.id].exists )
    => resp.status = 404

\* A bearer-authenticated request through the router for a missing track
\* was answered 404.
C10_Witness ==
    /\ Guarded
    /\ req.route = "tracks"
    /\ IsBearer(req)
    /\ ValidToken(req.authorization.rest, clock)
    /\ ~files[req.id].exists
    /\ guard = "admitted"
    /\ resp.status = 404

\* ------------------------------------------- the queue and the worker
AppendedIds == [i \in 1 .. Len(appended) |-> appended[i].id]

IsPrefix(p, q) == Len(p) <= Len(q) /\ SubSeq(q, 1, Len(p)) = p

Count(q, id) == Cardinality({ i \in 1 .. Len(q) : q[i] = id })

\* C11: the queue is FIFO: the identifiers the worker has removed are, in
\* order, a prefix of the identifiers appended, duplicates included.
C11_RemovedIsPrefixOfAppended == IsPrefix(removed, AppendedIds)

\* One request enqueued test1, nonexistent, test1 and the worker drained
\* the queue in that order.
C11_Witness ==
    /\ started = 1
    /\ Len(appended) = 3
    /\ removed = <<"test1", "nonexistent", "test1">>
    /\ prefetch_queue = <<>>

\* C12: appends and removes happen under the queue lock, at most one task
\* holds it, and the identifiers appended are exactly those removed plus
\* those still queued, counted with multiplicity.
C12_LockedAndConserved ==
    /\ Cardinality(mutex) <= 1
    /\ \A h \in TaskIds : (tasks[h].pc = "push") <=> (h \in mutex)
    /\ (worker.pc = "pop") <=> ("worker" \in mutex)
    /\ \A id \in TrackIds :
          Count(AppendedIds, id) = Count(removed, id) + Count(prefetch_queue, id)

\* Two runs and the worker contend: one run holds the lock, the other run
\* and the worker wait for it, and identifiers have gone in and out.
C12_Witness ==
    /\ tasks["h1"].pc = "push"
    /\ tasks["h2"].pc = "lock"
    /\ worker.pc = "lock"
    /\ mutex = {"h1"}
    /\ removed # <<>>
    /\ prefetch_queue # <<>>

\* The status prefetch_tracks owes a request, whatever the worker does.
OwedStatus(r) ==
    IF JsonRejected(r.body) THEN json_rejection_status(r.body)
    ELSE IF ~Authenticated(r, 0) THEN 401
    ELSE 200

\* C14: the worker consumes unconditionally and absorbs failures: a track it
\* took is the head it removed, whether the file is missing, cannot be opened
\* or fails while read; the worker never stops; and every run of the handler
\* still gets the status its request is owed.
C14_WorkerAbsorbsFailures ==
    /\ worker.pc \in {"lock", "pop", "warm", "sleep"}
    /\ AppendedIds = removed \o prefetch_queue
    /\ (worker.pc \in {"warm", "sleep"} /\ worker.track_id # Absent)
          => (removed # <<>> /\ removed[Len(removed)] = worker.track_id)
    /\ \A h \in TaskIds :
          tasks[h].pc = "done" => tasks[h].resp.status = OwedStatus(tasks[h].req)

\* The stored track could not be opened: its entry is gone, the worker
\* sleeps, and another entry waits for the next iteration.
C14_Witness ==
    /\ worker.pc = "sleep"
    /\ worker.track_id = "test1"
    /\ worker.outcome = "skipped"
    /\ removed = <<"test1">>
    /\ prefetch_queue # <<>>

\* C18: the handler takes the lock once per identifier; the identifiers of
\* one request are appended, and so removed, in that request's order.
C18_PerIdentifierLocking ==
    /\ \A h \in TaskIds :
          tasks[h].locks = tasks[h].pushed + (IF tasks[h].pc = "push" THEN 1 ELSE 0)
    /\ \A i \in 1 .. Len(appended) : appended[i].id = appended[i].of[appended[i].k]
    /\ \A i, j \in 1 .. Len(appended) :
          (i < j /\ appended[i].run = appended[j].run)
             => appended[i].k < appended[j].k
    /\ IsPrefix(removed, AppendedIds)

\* Two requests interleave in the queue, and the worker has removed the
\* first identifier of a request that has not yet appended all of its own.
C18_Witness ==
    /\ \E i, j, l \in 1 .. Len(appended) :
          /\ i < j /\ j < l
          /\ appended[i].run = appended[l].run
          /\ appended[i].run # appended[j].run
    /\ removed # <<>>
    /\ \E h \in TaskIds :
          /\ tasks[h].run = appended[1].run
          /\ tasks[h].left # <<>>

\* ------------------------------------------------ the served surface
Pushed == SelectSeq(effects, LAMBDA e : e.op = "push_back")

\* C13: in the running service every identifier of an authenticated,
\* well-formed POST /prefetch is appended to the prefetch queue (from where
\* the worker would remove it).
C13_SubmittedIsAppended ==
    ( /\ Guarded
      /\ req.route = "prefetch"
      /\ Authenticated(req, clock)
      /\ req.body.kind = "json" )
    => ( /\ resp.status = 200
         /\ Pushed = PushAll(req.body.track_ids) )

Rejected(r, now) ==
    ~verify_supabase_token(r.authorization, r.apikey, JwtSecret, now).ok

\* C15: every rejected request gets one and the same response, status 401
\* and a body that does not depend on the cause: the guard's
\* "Authentication required", or the bare status of a handler.
C15_RejectionsIdentical ==
    (Responded /\ Rejected(req, clock))
    => resp = IF handler = "create_app"
              THEN error_response(401, "Authentication required")
              ELSE Response(401)

C17_FixedOrder ==
    Guarded =>
       /\ IsBearer(req) =>
             /\ (guard = "admitted") <=> ValidToken(req.authorization.rest, clock)
             /\ guard = "admitted" => extensions.sub = req.authorization.rest.sub
       /\ ~IsBearer(req) =>
             /\ (guard = "admitted") <=> NonEmptyApikey(req)
             /\ guard = "admitted" => extensions = AnonClaims
       /\ (guard = "rejected") <=> (resp.status = 401)

\* A token that is no JWT was rejected although a usable apikey came with it.
C17_Witness ==
    /\ Guarded
    /\ IsBearer(req)
    /\ req.authorization.rest = GarbageToken
    /\ NonEmptyApikey(req)
    /\ guard = "rejected"
    /\ resp.error = "Authentication required"

====
